---------------------------- MODULE Spec2Model ----------------------------
(***************************************************************************)
(* A model of quadtrix/servicelogger: a file logger with size-triggered    *)
(* rotation and per-facility level filters.                                *)
(*                                                                         *)
(* The repository holds two copies of the package:                         *)
(*   src/servicelogger.go   - Log methods with VALUE receivers, logRotate  *)
(*                            returning only an error ("root" below);      *)
(*   src/unnamed/part_000   - Log methods with POINTER receivers,          *)
(*                            logRotate returning the writer ("part").     *)
(* Both are modelled; the variable `variant` says which copy a behaviour   *)
(* runs.                                                                   *)
(*                                                                         *)
(* Strings are sequences of tokens.  A file is an inode number and a size; *)
(* the file system maps names (path, generation) to files, generation -1   *)
(* being the live file <path> and generation n >= 0 the file <path>.n.     *)
(* A file handle is the inode number it was opened on, so a handle         *)
(* follows its file through renames, as on POSIX.                          *)
(***************************************************************************)
EXTENDS Integers, Sequences, FiniteSets, TLC

\* ------------------------------------------------------------- constants
LL_TRACE == 1
LL_DEBUG == 2
LL_INFO == 3
LL_WARN == 4
LL_ERROR == 5
LL_FATAL == 6

LogLevels == LL_TRACE .. LL_FATAL

\* ------------------------------------------------------------- bounds
\* Bytes one written log line adds to a file (every line the same length).
LineLen == 512
\* A file is never grown beyond this many lines (guard of the operations).
MaxLines == 3
\* Largest keep count handed to New / ApplyNewSettings.
MaxKeep == 3
\* Largest number of facility filters added.
MaxFilters == 2
\* Calls the caller makes in one run.
MaxCalls == 2
\* Frames the call stack of one Log call may hold (guard of the calls made
\* inside a call).
MaxDepth == 6

Paths == {"a", "b"}
Keeps == 0 .. MaxKeep
MaxGen == IF MaxKeep < 1 THEN 1 ELSE MaxKeep
Names == Paths \X (-1 .. MaxGen)

\* The size strings handed to ApplyNewSettings.  "1K" and "01K" parse to
\* the same size; "1X" and "aK" are malformed.
SizeStrings ==
  { <<"0", "K">>, <<"1", "K">>, <<"0", "1", "K">>, <<"1", "X">>, <<"a", "K">> }

\* The logger's prefix and the call sites (source, function) of the caller.
Prefix == <<"s">>
CallSites == { [source |-> <<"d">>, function |-> <<"q">>],
               [source |-> <<"h">>, function |-> <<"q">>] }
\* The filter strings AddFacilityFilter is called with.
FilterNames == { <<"s">>, <<"s", ".", "d">>, <<"x">> }
FilterLevels == {LL_TRACE, LL_ERROR, LL_FATAL}

\* What the file system refuses during one call: the stat of the live file,
\* the rename of generation 1, the rename of a generation above 1, the
\* rename of the live file, or the opening of a file.
Faults == {"none", "stat", "rename_gen1", "rename_gen", "rename_live", "open"}

\* The fault that makes the rename of generation i fail.
RenameFault(i) == IF i = 1 THEN "rename_gen1" ELSE "rename_gen"

VARIABLES
  variant,   \* "root": src/servicelogger.go, "part": src/unnamed/part_000
  lg,        \* the Logger value the caller holds
  fs,        \* the file system: name -> file
  exited,    \* the process has terminated
  faulted,   \* a file-system operation has failed in some call so far
  calls,     \* the number of calls made
  last       \* the last call: its inputs, its result, what it did and,
             \* while it runs step by step, its stack of frames

vars == <<variant, lg, fs, exited, faulted, calls, last>>

\* F applied to the value of x, x being evaluated once (TLC evaluates a LET
\* definition again at each use; a bound variable holds a value).
Then(x, F(_)) == CHOOSE r \in {F(v) : v \in {x}} : TRUE

\* ------------------------------------------------------------- strings
HasPrefix(s, p) ==
  /\ Len(p) <= Len(s)
  /\ \A i \in 1 .. Len(p) : s[i] = p[i]

HasSuffix(s, c) == Len(s) > 0 /\ s[Len(s)] = c

Digits == {"0", "1", "2", "3", "4", "5", "6", "7", "8", "9"}

DigitVal(c) ==
  CASE c = "0" -> 0 [] c = "1" -> 1 [] c = "2" -> 2 [] c = "3" -> 3
    [] c = "4" -> 4 [] c = "5" -> 5 [] c = "6" -> 6 [] c = "7" -> 7
    [] c = "8" -> 8 [] OTHER -> 9

RECURSIVE Decimal(_)
Decimal(s) ==
  IF Len(s) = 0 THEN 0
  ELSE 10 * Decimal(SubSeq(s, 1, Len(s) - 1)) + DigitVal(s[Len(s)])

\* strconv.Atoi on an unsigned decimal string.
Atoi(s) ==
  IF Len(s) > 0 /\ \A i \in 1 .. Len(s) : s[i] \in Digits
  THEN [err |-> FALSE, val |-> Decimal(s)]
  ELSE [err |-> TRUE, val |-> 0]

\* (a slip: a string without a known modifier is taken as a count of
\* kilobytes instead of being refused)
logSizeStringLenient(lss) ==
  LET modifier ==
        IF HasSuffix(lss, "M") THEN 1024
        ELSE IF HasSuffix(lss, "G") THEN 1024 * 1024
        ELSE IF HasSuffix(lss, "T") THEN 1024 * 1024 * 1024
        ELSE 1
      il == Atoi(SubSeq(lss, 1, Len(lss) - 1))
  IN IF il.err THEN [err |-> TRUE, val |-> 0]
     ELSE [err |-> FALSE, val |-> il.val * modifier]

\* logSizeStringToLogSizeInt64.  Every size it returns is a multiple of
\* 1024 bytes; the model keeps sizes in units of 1024 bytes (l = 1024 *
\* val), so that the modifier of "T" stays within TLC's integers.
logSizeStringToLogSizeInt64(lss) ==
  LET modifier ==
        IF HasSuffix(lss, "K") THEN 1
        ELSE IF HasSuffix(lss, "M") THEN 1024
        ELSE IF HasSuffix(lss, "G") THEN 1024 * 1024
        ELSE IF HasSuffix(lss, "T") THEN 1024 * 1024 * 1024
        ELSE 0
  IN IF modifier = 0 THEN [err |-> TRUE, val |-> 0]
     ELSE LET il == Atoi(SubSeq(lss, 1, Len(lss) - 1))
          IN IF il.err THEN [err |-> TRUE, val |-> 0]
             ELSE [err |-> FALSE, val |-> il.val * modifier]

\* (a slip: the threshold itself does not count as reached)
SizeReachedStrict(bytes, rotatesize) == (bytes \div 1024) > rotatesize

\* filestats.Size() >= l.rotatesize, the size in bytes and the threshold in
\* units of 1024 bytes.
SizeReached(bytes, rotatesize) == (bytes \div 1024) >= rotatesize

\* (a slip: a threshold equal to the level suppresses the line)
PassesStrict(threshold, level) == threshold < level

\* The gate of a Log method: getFilteredLogLevel(...) <= LL_<level>.
Passes(threshold, level) == threshold <= level

\* fmt.Sprintf("%s.%s.%s", l.prefix, source, function)
Facility(source, function) == Prefix \o <<".">> \o source \o <<".">> \o function


\* ------------------------------------------------------------- filters
\* The loop of getFilteredLogLevel in src/unnamed/part_000: the index of the
\* best match among filters n .. Len, `found` being the best so far (0: none,
\* the code's -1).  A later match of equal length replaces the earlier (>=).
RECURSIVE FoundFilterPart(_, _, _, _)
FoundFilterPart(filters, facility, n, found) ==
  IF n > Len(filters) THEN found
  ELSE IF HasPrefix(facility, filters[n].filter)
       THEN IF found > 0
            THEN IF Len(filters[n].filter) >= Len(filters[found].filter)
                 THEN FoundFilterPart(filters, facility, n + 1, n)
                 ELSE FoundFilterPart(filters, facility, n + 1, found)
            ELSE FoundFilterPart(filters, facility, n + 1, n)
       ELSE FoundFilterPart(filters, facility, n + 1, found)

\* The same loop in src/servicelogger.go: the branch that records the first
\* match is missing, and a match replaces the best so far only when longer.
RECURSIVE FoundFilterRoot(_, _, _, _)
FoundFilterRoot(filters, facility, n, found) ==
  IF n > Len(filters) THEN found
  ELSE IF HasPrefix(facility, filters[n].filter)
       THEN IF found > 0
            THEN IF Len(filters[n].filter) > Len(filters[found].filter)
                 THEN FoundFilterRoot(filters, facility, n + 1, n)
                 ELSE FoundFilterRoot(filters, facility, n + 1, found)
            ELSE FoundFilterRoot(filters, facility, n + 1, found)
       ELSE FoundFilterRoot(filters, facility, n + 1, found)

getFilteredLogLevelPart(l, facility) ==
  LET foundfilter == FoundFilterPart(l.filters.filters, facility, 1, 0)
  IN IF foundfilter > 0 THEN l.filters.filters[foundfilter].level
     ELSE l.MinLoglevel

getFilteredLogLevelRoot(l, facility) ==
  LET foundfilter == FoundFilterRoot(l.filters.filters, facility, 1, 0)
  IN IF foundfilter > 0 THEN l.filters.filters[foundfilter].level
     ELSE l.MinLoglevel

\* ------------------------------------------------------------- files
NoFile == [id |-> 0, size |-> 0]
Live(path) == <<path, -1>>
Gen(path, i) == <<path, i>>
NoName == <<"", -1>>

Exists(f, name) == name \in DOMAIN f /\ f[name].id # 0
IdsIn(f) == {f[n].id : n \in {m \in DOMAIN f : f[m].id # 0}}
NameOf(f, id) ==
  IF \E n \in DOMAIN f : f[n].id = id /\ id # 0
  THEN CHOOSE n \in DOMAIN f : f[n].id = id
  ELSE NoName

\* One thing a call did.  k: "write" (a line to the file with inode f, at
\* level lvl, with text tag), "stat", "remove", "rename" (n to m), "open"
\* (name n, giving inode f), "close", "echo" (a line to standard output),
\* "exit" (lvl: the exit code), "set" (tag: the Logger field assigned).
Ev(k, n, m, f, lvl, tag) ==
  [k |-> k, n |-> n, m |-> m, f |-> f, lvl |-> lvl, tag |-> tag]

\* The state a call works on: the file system, the inode numbers used so
\* far, what was done, whether the process has exited, and the fault.
Did(w, e) == [w EXCEPT !.ev = Append(@, e)]

FreshId(w) == CHOOSE i \in 1 .. (Cardinality(w.used) + 1) :
                 i \notin w.used /\ \A j \in 1 .. (i - 1) : j \in w.used

\* os.OpenFile(name, O_APPEND|O_CREATE|O_WRONLY, 0640).
OpenFile(w, path) ==
  IF w.fault = "open"
  THEN [w |-> Did(w, Ev("open", Live(path), NoName, 0, 0, "failed")),
        id |-> 0, err |-> TRUE]
  ELSE IF Exists(w.fs, Live(path))
  THEN [w |-> Did(w, Ev("open", Live(path), NoName, w.fs[Live(path)].id, 0, "ok")),
        id |-> w.fs[Live(path)].id, err |-> FALSE]
  ELSE Then(FreshId(w), LAMBDA id :
         [w |-> Did([w EXCEPT !.fs[Live(path)] = [id |-> id, size |-> 0],
                              !.used = @ \cup {id}],
                    Ev("open", Live(path), NoName, id, 0, "created")),
          id |-> id, err |-> FALSE])

\* os.Stat(name): the size, or an error.
Stat(w, name, canFail) ==
  IF (canFail /\ w.fault = "stat") \/ ~Exists(w.fs, name)
  THEN [w |-> Did(w, Ev("stat", name, NoName, 0, 0, "failed")),
        err |-> TRUE, size |-> 0]
  ELSE [w |-> Did(w, Ev("stat", name, NoName, w.fs[name].id, 0, "ok")),
        err |-> FALSE, size |-> w.fs[name].size]

\* os.Remove(name) of an existing file.
Remove(w, name) ==
  Did([w EXCEPT !.fs[name] = NoFile],
      Ev("remove", name, NoName, w.fs[name].id, 0, "ok"))

\* os.Rename(old, new): new is replaced when it exists.
Rename(w, old, new, fault) ==
  IF w.fault = fault \/ ~Exists(w.fs, old)
  THEN [w |-> Did(w, Ev("rename", old, new, 0, 0, "failed")), err |-> TRUE]
  ELSE [w |-> Did([w EXCEPT !.fs[new] = w.fs[old], !.fs[old] = NoFile],
                  Ev("rename", old, new, w.fs[old].id, 0, "ok")),
        err |-> FALSE]

\* l.base.Printf / Println: one line appended to the file the writer is
\* bound to (an unlinked file takes the line as well, under no name).
Write(w, id, lvl, tag) ==
  Did([w EXCEPT !.fs = [n \in DOMAIN w.fs |->
                          IF w.fs[n].id = id /\ id # 0
                          THEN [w.fs[n] EXCEPT !.size = @ + LineLen]
                          ELSE w.fs[n]]],
      Ev("write", NameOf(w.fs, id), NoName, id, lvl, tag))

\* (a slip: the exit code handed in is dropped)
ExitFailure(w, code) ==
  [Did(w, Ev("exit", NoName, NoName, 0, 1, "")) EXCEPT !.exited = TRUE]

\* os.Exit(code), log.Fatal (code 1).
Exit(w, code) ==
  [Did(w, Ev("exit", NoName, NoName, 0, code, "")) EXCEPT !.exited = TRUE]

\* ------------------------------------------------------------- logging
ServiceLogger == <<"servicelogger">>

\* The name of the method that logs at `level`, as it appears in the
\* "Log rotation error" line the method writes.
LogFn(level) ==
  CASE level = LL_TRACE -> <<"LogTrace">>
    [] level = LL_DEBUG -> <<"LogDebug">>
    [] level = LL_INFO -> <<"LogInfo">>
    [] level = LL_WARN -> <<"LogWarn">>
    [] level = LL_ERROR -> <<"LogError">>
    [] OTHER -> <<"LogFatal">>

\* (a slip: the loop goes on after a failed rename and reports no error)
RECURSIVE ShiftGenerationsIgnoring(_, _, _)
ShiftGenerationsIgnoring(w, path, i) ==
  IF i <= 0 THEN [w |-> w, err |-> FALSE]
  ELSE Then(Stat(w, Gen(path, i), FALSE), LAMBDA st :
         IF st.err THEN ShiftGenerationsIgnoring(st.w, path, i - 1)
         ELSE Then(Rename(st.w, Gen(path, i), Gen(path, i + 1), RenameFault(i)),
                   LAMBDA rn : ShiftGenerationsIgnoring(rn.w, path, i - 1)))

\* The for loop of logRotate: generation i .. 1 renamed to i+1 .. 2.
RECURSIVE ShiftGenerations(_, _, _)
ShiftGenerations(w, path, i) ==
  IF i <= 0 THEN [w |-> w, err |-> FALSE]
  ELSE Then(Stat(w, Gen(path, i), FALSE), LAMBDA st :
         IF st.err THEN ShiftGenerations(st.w, path, i - 1)
         ELSE Then(Rename(st.w, Gen(path, i), Gen(path, i + 1), RenameFault(i)),
                   LAMBDA rn :
                     IF rn.err THEN rn
                     ELSE ShiftGenerations(rn.w, path, i - 1)))

\* The generation keep of logRotate: removed when it exists.
RemoveOldest(w, l) ==
  Then(Stat(w, Gen(l.filename, l.keep), FALSE), LAMBDA st :
    IF st.err THEN st.w ELSE Remove(st.w, Gen(l.filename, l.keep)))

\* (a slip: a failed rename of a generation ends the process)
ShiftFilesFatal(w, l) ==
  Then(RemoveOldest(w, l), LAMBDA w1 :
  Then(ShiftGenerations(w1, l.filename, l.keep - 1), LAMBDA sh :
    IF sh.err THEN [w |-> Exit(sh.w, 1), err |-> TRUE]
    ELSE Rename(sh.w, Live(l.filename), Gen(l.filename, 1), "rename_live")))

\* The renames of logRotate, from the stat of generation keep to the rename
\* of the live file.
ShiftFiles(w, l) ==
  Then(RemoveOldest(w, l), LAMBDA w1 :
  Then(ShiftGenerations(w1, l.filename, l.keep - 1), LAMBDA sh :
    IF sh.err THEN sh
    ELSE Rename(sh.w, Live(l.filename), Gen(l.filename, 1), "rename_live")))

\* ---- src/unnamed/part_000: pointer receivers.  A call gives back the
\* Logger as it leaves it.
RECURSIVE LogPart(_, _, _, _, _, _)
RECURSIVE logRotatePart(_, _)

\* logRotate past the size check: the rotation.
RotatePart(w, l1) ==
  Then(LogPart(w, l1, LL_TRACE, <<"logRotate">>, ServiceLogger, "rot_begin"),
       LAMBDA t1 :
  Then(ShiftFiles(t1.w, t1.l), LAMBDA sh :
    IF sh.err
    THEN [w |-> sh.w, l |-> t1.l, nbase |-> t1.l.base, err |-> TRUE]
    ELSE Then(OpenFile(sh.w, t1.l.filename), LAMBDA op :
           IF op.err
           THEN [w |-> Exit(op.w, 1), l |-> t1.l, nbase |-> t1.l.base,
                 err |-> TRUE]
           ELSE Then([t1.l EXCEPT !.filehandle = op.id, !.base = op.id],
                     LAMBDA l2 :
                Then(LogPart(op.w, l2, LL_TRACE, <<"logRotate">>, ServiceLogger,
                             "rot_end"), LAMBDA t2 :
                  [w |-> t2.w, l |-> [t2.l EXCEPT !.rotation_running = FALSE],
                   nbase |-> t2.l.base, err |-> FALSE])))))

logRotatePart(w, l) ==
  IF l.rotate /\ ~l.rotation_running
  THEN Then([l EXCEPT !.rotation_running = TRUE], LAMBDA l1 :
       Then(Stat(w, Live(l1.filename), TRUE), LAMBDA st :
         IF st.err
         THEN [w |-> st.w, l |-> l1, nbase |-> l1.base, err |-> TRUE]
         ELSE IF SizeReached(st.size, l1.rotatesize)
         THEN RotatePart(st.w, l1)
         ELSE [w |-> st.w, l |-> [l1 EXCEPT !.rotation_running = FALSE],
               nbase |-> l1.base, err |-> FALSE]))
  ELSE [w |-> w, l |-> l, nbase |-> l.base, err |-> FALSE]

\* (a slip: logRotate called twice, once for its error and once for its
\* writer)
PreparePartTwice(w, l, level) ==
  Then(logRotatePart(w, l), LAMBDA r0 :
    IF r0.w.exited THEN [w |-> r0.w, l |-> r0.l]
    ELSE Then(logRotatePart(r0.w, r0.l), LAMBDA r :
           [w |-> r.w, l |-> [r.l EXCEPT !.base = r.nbase]]))

\* What a Log method of part_000 does before it writes its line: logRotate,
\* LogError when that failed, and the writer logRotate returned taken over.
PreparePart(w, l, level) ==
  Then(logRotatePart(w, l), LAMBDA r :
    IF r.err /\ ~r.w.exited
    THEN Then(LogPart(r.w, r.l, LL_ERROR, LogFn(level), ServiceLogger, "rot_err"),
              LAMBDA e : [w |-> e.w, l |-> [e.l EXCEPT !.base = r.nbase]])
    ELSE [w |-> r.w, l |-> [r.l EXCEPT !.base = r.nbase]])

\* LogTrace .. LogError of part_000.
LogPart(w, l, level, function, source, tag) ==
  IF w.exited THEN [w |-> w, l |-> l]
  ELSE IF Passes(getFilteredLogLevelPart(l, Facility(source, function)), level)
  THEN Then(PreparePart(w, l, level), LAMBDA p :
         IF p.w.exited THEN p
         ELSE [w |-> Write(p.w, p.l.base, level, tag), l |-> p.l])
  ELSE [w |-> w, l |-> l]

\* LogFatal of part_000.
LogFatalPart(w, l, function, source, tag, exitcode) ==
  IF w.exited THEN [w |-> w, l |-> l]
  ELSE IF Passes(getFilteredLogLevelPart(l, Facility(source, function)), LL_FATAL)
  THEN Then(PreparePart(w, l, LL_FATAL), LAMBDA p :
         IF p.w.exited THEN p
         ELSE [w |-> Exit(Did(Write(p.w, p.l.base, LL_FATAL, tag),
                              Ev("echo", NoName, NoName, 0, LL_FATAL, tag)),
                          exitcode),
               l |-> p.l])
  ELSE [w |-> w, l |-> l]

\* ---- src/servicelogger.go: the Log methods have value receivers, so each
\* works on a copy of the Logger and gives back only the file system;
\* logRotate has a pointer receiver and works on the copy of its caller.
RECURSIVE LogRoot(_, _, _, _, _, _)
RECURSIVE logRotateRoot(_, _)

\* logRotate past the size check: the rotation.  The flag stays set when the
\* rotation is done (return nil before the reset).
RotateRoot(w, l1) ==
  Then(LogRoot(w, l1, LL_TRACE, <<"logRotate">>, ServiceLogger, "rot_begin"),
       LAMBDA w1 :
  Then(ShiftFiles(w1, l1), LAMBDA sh :
    IF sh.err
    THEN [w |-> sh.w, l |-> l1, err |-> TRUE]
    ELSE Then(OpenFile(sh.w, l1.filename), LAMBDA op :
           IF op.err
           THEN [w |-> Exit(op.w, 1), l |-> l1, err |-> TRUE]
           ELSE Then([l1 EXCEPT !.filehandle = op.id, !.base = op.id],
                     LAMBDA l2 :
                  [w |-> LogRoot(op.w, l2, LL_TRACE, <<"logRotate">>,
                                 ServiceLogger, "rot_end"),
                   l |-> l2, err |-> FALSE]))))

logRotateRoot(w, l) ==
  IF l.rotate /\ ~l.rotation_running
  THEN Then([l EXCEPT !.rotation_running = TRUE], LAMBDA l1 :
       Then(Stat(w, Live(l1.filename), TRUE), LAMBDA st :
         IF st.err
         THEN [w |-> st.w, l |-> l1, err |-> TRUE]
         ELSE IF SizeReached(st.size, l1.rotatesize)
         THEN RotateRoot(st.w, l1)
         ELSE [w |-> st.w, l |-> [l1 EXCEPT !.rotation_running = FALSE],
               err |-> FALSE]))
  ELSE [w |-> w, l |-> l, err |-> FALSE]

\* LogTrace .. LogError of servicelogger.go: the error of logRotate is dropped.
LogRoot(w, l, level, function, source, tag) ==
  IF w.exited THEN w
  ELSE IF Passes(getFilteredLogLevelRoot(l, Facility(source, function)), level)
  THEN Then(logRotateRoot(w, l), LAMBDA r :
         IF r.w.exited THEN r.w
         ELSE Write(r.w, r.l.base, level, tag))
  ELSE w

\* LogFatal of servicelogger.go.
LogFatalRoot(w, l, function, source, tag, exitcode) ==
  IF w.exited THEN w
  ELSE IF Passes(getFilteredLogLevelRoot(l, Facility(source, function)), LL_FATAL)
  THEN Then(logRotateRoot(w, l), LAMBDA r :
         IF r.w.exited THEN r.w
         ELSE Exit(Did(Write(r.w, r.l.base, LL_FATAL, tag),
                       Ev("echo", NoName, NoName, 0, LL_FATAL, tag)),
                   exitcode))
  ELSE w

\* logRotate of the running copy, as a step of its own on Logger l: the file
\* system and the Logger it leaves.
logRotate(w, l) ==
  IF variant = "root"
  THEN Then(logRotateRoot(w, l), LAMBDA r : [w |-> r.w, l |-> r.l])
  ELSE Then(logRotatePart(w, l), LAMBDA r :
         [w |-> r.w, l |-> [r.l EXCEPT !.base = r.nbase]])

\* ---- the method the running copy of the package provides.
getFilteredLogLevel(l, facility) ==
  IF variant = "root" THEN getFilteredLogLevelRoot(l, facility)
  ELSE getFilteredLogLevelPart(l, facility)

Log(w, l, level, function, source, tag) ==
  IF variant = "root"
  THEN [w |-> LogRoot(w, l, level, function, source, tag), l |-> l]
  ELSE LogPart(w, l, level, function, source, tag)

LogFatal(w, l, function, source, tag, exitcode) ==
  IF variant = "root"
  THEN [w |-> LogFatalRoot(w, l, function, source, tag, exitcode), l |-> l]
  ELSE LogFatalPart(w, l, function, source, tag, exitcode)

\* ------------------------------------------------------------- settings
\* A Logger field assigned by ApplyNewSettings.
SetField(w, field) == Did(w, Ev("set", NoName, NoName, 0, 0, field))

\* slog.LogTrace(...) from ApplyNewSettings.
ApplyTrace(s, tag) ==
  Log(s.w, s.l, LL_TRACE, <<"ApplyNewSettings">>, ServiceLogger, tag)

\* (a slip: the new file is opened but filename keeps the old path)
SwitchFileKeepsName(t, newFile) ==
  Then(SetField(Did(t.w, Ev("close", NameOf(t.w.fs, t.l.filehandle), NoName,
                            t.l.filehandle, 0, "")),
                "filename"), LAMBDA w1 :
  Then(OpenFile(w1, newFile), LAMBDA op :
    IF op.err
    THEN [w |-> Exit(op.w, 1), l |-> [t.l EXCEPT !.filehandle = 0]]
    ELSE [w |-> op.w,
          l |-> [t.l EXCEPT !.filehandle = op.id, !.base = op.id]]))

\* The handle closed, filename assigned and the new file opened.
SwitchFile(t, newFile) ==
  Then(SetField(Did(t.w, Ev("close", NameOf(t.w.fs, t.l.filehandle), NoName,
                            t.l.filehandle, 0, "")),
                "filename"), LAMBDA w1 :
  Then(OpenFile(w1, newFile), LAMBDA op :
    IF op.err
    THEN [w |-> Exit(op.w, 1),
          l |-> [t.l EXCEPT !.filename = newFile, !.filehandle = 0]]
    ELSE [w |-> op.w,
          l |-> [t.l EXCEPT !.filename = newFile, !.filehandle = op.id,
                            !.base = op.id]]))

ApplyFile(s, newFile) ==
  IF s.w.exited \/ newFile = s.l.filename THEN s
  ELSE Then(ApplyTrace(s, "cfg_file"), LAMBDA t :
         IF t.w.exited THEN t ELSE SwitchFile(t, newFile))

\* (a slip: the level is committed first and the change logged afterwards)
ApplyLevelCommitFirst(s, newLevel) ==
  IF s.w.exited \/ newLevel = s.l.MinLoglevel THEN s
  ELSE ApplyTrace([w |-> SetField(s.w, "MinLoglevel"),
                   l |-> [s.l EXCEPT !.MinLoglevel = newLevel]], "cfg_level")

ApplyLevel(s, newLevel) ==
  IF s.w.exited \/ newLevel = s.l.MinLoglevel THEN s
  ELSE Then(ApplyTrace(s, "cfg_level"), LAMBDA t :
         IF t.w.exited THEN t
         ELSE [w |-> SetField(t.w, "MinLoglevel"),
               l |-> [t.l EXCEPT !.MinLoglevel = newLevel]])

ApplyRotation(s, newRotation) ==
  IF s.w.exited \/ newRotation = s.l.rotate THEN s
  ELSE Then(ApplyTrace(s, IF newRotation THEN "cfg_rot_on" ELSE "cfg_rot_off"),
            LAMBDA t :
         IF t.w.exited THEN t
         ELSE [w |-> SetField(t.w, "rotate"),
               l |-> [t.l EXCEPT !.rotate = newRotation]])

ApplyRotSize(s, nrs) ==
  IF s.w.exited \/ nrs = s.l.rotatesize THEN s
  ELSE Then(ApplyTrace(s, "cfg_size"), LAMBDA t :
         IF t.w.exited THEN t
         ELSE [w |-> SetField(t.w, "rotatesize"),
               l |-> [t.l EXCEPT !.rotatesize = nrs]])

\* (a slip: the change of keep is logged and not committed)
ApplyKeepLogsOnly(s, newKeep) ==
  IF s.w.exited \/ newKeep = s.l.keep THEN s
  ELSE Then(ApplyTrace(s, "cfg_keep"), LAMBDA t :
         IF t.w.exited THEN t
         ELSE [w |-> SetField(t.w, "keep"), l |-> t.l])

ApplyKeep(s, newKeep) ==
  IF s.w.exited \/ newKeep = s.l.keep THEN s
  ELSE Then(ApplyTrace(s, "cfg_keep"), LAMBDA t :
         IF t.w.exited THEN t
         ELSE [w |-> SetField(t.w, "keep"),
               l |-> [t.l EXCEPT !.keep = newKeep]])

\* (a slip: the requested size compared in bytes with the size kept in units
\* of 1024 bytes)
SettingsDifferUnits(slog, newFile, newLevel, newRotation, nrs, newKeep) ==
  \/ newFile # slog.filename
  \/ newLevel # slog.MinLoglevel
  \/ newRotation # slog.rotate
  \/ 1024 * nrs # slog.rotatesize
  \/ newKeep # slog.keep

\* The comparison of the requested settings with the current ones.
SettingsDiffer(slog, newFile, newLevel, newRotation, nrs, newKeep) ==
  \/ newFile # slog.filename
  \/ newLevel # slog.MinLoglevel
  \/ newRotation # slog.rotate
  \/ nrs # slog.rotatesize
  \/ newKeep # slog.keep

\* ApplyNewSettings past the parse of the size: s0 is the Logger and the file
\* system, nrs the parsed size (0 when the parse failed and LogFatal
\* returned).
ApplyChanges(s0, newFile, newLevel, newRotation, nrs, newKeep) ==
  IF s0.w.exited THEN [w |-> s0.w, l |-> s0.l, ret |-> FALSE]
  ELSE IF SettingsDiffer(s0.l, newFile, newLevel, newRotation, nrs, newKeep)
  THEN Then(Log(s0.w, s0.l, LL_INFO, <<"ApplyNewSettings">>, ServiceLogger,
                "cfg_changed"), LAMBDA s1 :
       Then(ApplyFile(s1, newFile), LAMBDA s2 :
       Then(ApplyLevel(s2, newLevel), LAMBDA s3 :
       Then(ApplyRotation(s3, newRotation), LAMBDA s4 :
       Then(ApplyRotSize(s4, nrs), LAMBDA s5 :
       Then(ApplyKeep(s5, newKeep), LAMBDA s6 :
         [w |-> s6.w, l |-> s6.l, ret |-> TRUE]))))))
  ELSE [w |-> s0.w, l |-> s0.l, ret |-> FALSE]

\* ApplyNewSettings: the Logger and file system it leaves, and what it
\* returns (ret is meaningless when the process has exited).
ApplyNewSettings(w, slog, newFile, newLevel, newRotation, newRotSize, newKeep) ==
  Then(logSizeStringToLogSizeInt64(newRotSize), LAMBDA p :
    IF p.err
    THEN Then(LogFatal(w, slog, <<"ApplyNewSettings">>, ServiceLogger,
                       "cfg_fatal", 222), LAMBDA s0 :
           ApplyChanges(s0, newFile, newLevel, newRotation, p.val, newKeep))
    ELSE ApplyChanges([w |-> w, l |-> slog], newFile, newLevel, newRotation,
                      p.val, newKeep))

\* (a slip: the filter is appended and its level also stored as the
\* Logger's minimum level)
AddFacilityFilterAsMinimum(slog, filtername, filterlevel) ==
  LET ffilter == [filter |-> filtername, level |-> filterlevel]
  IN [slog EXCEPT !.filters.count = @ + 1,
                  !.filters.filters = Append(@, ffilter),
                  !.MinLoglevel = filterlevel]

\* AddFacilityFilter.
AddFacilityFilter(slog, filtername, filterlevel) ==
  LET ffilter == [filter |-> filtername, level |-> filterlevel]
  IN [slog EXCEPT !.filters.count = @ + 1,
                  !.filters.filters = Append(@, ffilter)]

\* ------------------------------------------------------------- the machine
\* The arguments New is called with.
NewPaths == {"a"}
NewLevels == {LL_TRACE, LL_INFO}
NewSizes == {<<"0", "K">>, <<"1", "K">>}
\* The levels ApplyNewSettings is called with, and the faults it meets.
ApplyLevels == {LL_TRACE, LL_FATAL}
ApplyFaults == {"none", "open"}

\* New(prefix, filename, minloglevel, rotate, rotatesize, keep), the log
\* file opened (created) in a directory that holds no file yet.
New(filename, minloglevel, rotate, rotatesize, keep) ==
  [MinLoglevel |-> minloglevel,
   filename |-> filename,
   rotate |-> rotate,
   rotatesize |-> logSizeStringToLogSizeInt64(rotatesize).val,
   keep |-> keep,
   filehandle |-> 1,
   base |-> 1,
   rotation_running |-> FALSE,
   filters |-> [count |-> 0, filters |-> <<>>]]

\* The Logger value Go gives `l` on entry of New: every field zero.
ZeroLogger ==
  [MinLoglevel |-> 0, filename |-> "", rotate |-> FALSE, rotatesize |-> 0,
   keep |-> 0, filehandle |-> 0, base |-> 0, rotation_running |-> FALSE,
   filters |-> [count |-> 0, filters |-> <<>>]]

\* (a slip: keep is checked after the size is parsed and the file opened)
NewResultLateCheck(w, filename, minloglevel, rotate, rotatesize, keep) ==
  Then(logSizeStringToLogSizeInt64(rotatesize), LAMBDA p :
    IF p.err
    THEN [w |-> Exit(w, 1), err |-> TRUE,
          l |-> [ZeroLogger EXCEPT !.filename = filename, !.rotate = rotate,
                                   !.keep = keep]]
    ELSE Then(OpenFile(w, filename), LAMBDA op :
      IF op.err
      THEN [w |-> Exit(op.w, 1), err |-> TRUE,
            l |-> [ZeroLogger EXCEPT !.filename = filename, !.rotate = rotate,
                                     !.keep = keep, !.rotatesize = p.val]]
      ELSE [w |-> op.w, err |-> keep < 2 /\ rotate,
            l |-> [New(filename, minloglevel, rotate, rotatesize, keep)
                     EXCEPT !.filehandle = op.id, !.base = op.id]]))

\* New as a call, with the ways it can end: the error returned for keep < 2
\* with rotate (l holding filename and rotate only), log.Fatal for a
\* malformed size or a file that cannot be opened, and the Logger returned.
NewResult(w, filename, minloglevel, rotate, rotatesize, keep) ==
  IF keep < 2 /\ rotate
  THEN [w |-> w, err |-> TRUE,
        l |-> [ZeroLogger EXCEPT !.filename = filename, !.rotate = rotate]]
  ELSE Then(logSizeStringToLogSizeInt64(rotatesize), LAMBDA p :
    IF p.err
    THEN [w |-> Exit(w, 1), err |-> TRUE,
          l |-> [ZeroLogger EXCEPT !.filename = filename, !.rotate = rotate,
                                   !.keep = keep]]
    ELSE Then(OpenFile(w, filename), LAMBDA op :
      IF op.err
      THEN [w |-> Exit(op.w, 1), err |-> TRUE,
            l |-> [ZeroLogger EXCEPT !.filename = filename, !.rotate = rotate,
                                     !.keep = keep, !.rotatesize = p.val]]
      ELSE [w |-> op.w, err |-> FALSE,
            l |-> [New(filename, minloglevel, rotate, rotatesize, keep)
                     EXCEPT !.filehandle = op.id, !.base = op.id]]))

\* The record of a call: what was called with which arguments under which
\* fault, the Logger and the file system it started from, what it returned
\* and what it did, and the frames of the methods it is in (none once it
\* has returned).  Idle: the caller is between two calls.
Idle ==
  [op |-> "none", level |-> 0, function |-> <<>>, source |-> <<>>,
   fault |-> "none", ret |-> FALSE, ev |-> <<>>, args |-> <<>>,
   pre |-> [lg |-> <<>>, fs |-> <<>>, faulted |-> FALSE],
   stack |-> <<>>]

Init ==
  /\ variant \in {"root", "part"}
  /\ \E filename \in NewPaths, minloglevel \in NewLevels, rotate \in BOOLEAN,
        rotatesize \in NewSizes, keep \in Keeps :
       /\ ~(keep < 2 /\ rotate)
       /\ lg = New(filename, minloglevel, rotate, rotatesize, keep)
       /\ fs = [n \in Names |-> IF n = Live(filename)
                                THEN [id |-> 1, size |-> 0] ELSE NoFile]
  /\ exited = FALSE
  /\ faulted = FALSE
  /\ calls = 0
  /\ last = Idle

\* The state a call starts from.
Begin(fault) ==
  [fs |-> fs, used |-> IdsIn(fs) \cup {lg.filehandle, lg.base}, ev |-> <<>>,
   exited |-> FALSE, fault |-> fault]

\* A file-system operation failed (the failed stat of a generation only
\* says that there is no such generation).
Failed(ev) ==
  \E i \in 1 .. Len(ev) :
     /\ ev[i].tag = "failed"
     /\ (ev[i].k = "stat" => ev[i].n[2] = -1)

WithinBounds(f) == \A n \in DOMAIN f : f[n].size <= MaxLines * LineLen

CanCall == ~exited /\ calls < MaxCalls /\ last.op = "none"

\* What a call leaves behind.
Finish(r, call) ==
  /\ WithinBounds(r.w.fs)
  /\ lg' = r.l
  /\ fs' = r.w.fs
  /\ exited' = r.w.exited
  /\ faulted' = (faulted \/ Failed(r.w.ev))
  /\ calls' = calls + 1
  /\ last' = [call EXCEPT !.ev = r.w.ev,
                          !.pre = [lg |-> lg, fs |-> fs, faulted |-> faulted]]

\* The caller logs a line at TRACE .. ERROR.
LogCall ==
  /\ CanCall
  /\ \E level \in LL_TRACE .. LL_ERROR, site \in CallSites, fault \in Faults :
     \E r \in {Log(Begin(fault), lg, level, site.function, site.source, "caller")} :
       Finish(r,
              [Idle EXCEPT !.op = "Log", !.level = level,
                           !.function = site.function, !.source = site.source,
                           !.fault = fault])
  /\ UNCHANGED variant

\* The caller logs a line at FATAL.
LogFatalCall ==
  /\ CanCall
  /\ \E site \in CallSites, fault \in Faults, exitcode \in {3} :
     \E r \in {LogFatal(Begin(fault), lg, site.function, site.source, "caller",
                        exitcode)} :
       Finish(r,
              [Idle EXCEPT !.op = "LogFatal", !.level = LL_FATAL,
                           !.function = site.function, !.source = site.source,
                           !.fault = fault, !.args = <<exitcode>>])
  /\ UNCHANGED variant

ApplyNewSettingsCall ==
  /\ CanCall
  /\ \E newFile \in Paths, newLevel \in ApplyLevels, newRotation \in BOOLEAN,
        newRotSize \in SizeStrings, newKeep \in Keeps, fault \in ApplyFaults :
     \E r \in {ApplyNewSettings(Begin(fault), lg, newFile, newLevel, newRotation,
                                newRotSize, newKeep)} :
          Finish(r, [Idle EXCEPT !.op = "ApplyNewSettings", !.fault = fault,
                                 !.ret = r.ret,
                                 !.args = <<newFile, newLevel, newRotation,
                                            newRotSize, newKeep>>])
  /\ UNCHANGED variant

AddFacilityFilterCall ==
  /\ CanCall
  /\ lg.filters.count < MaxFilters
  /\ \E filtername \in FilterNames, filterlevel \in FilterLevels :
       /\ lg' = AddFacilityFilter(lg, filtername, filterlevel)
       /\ last' = [Idle EXCEPT !.op = "AddFacilityFilter",
                               !.args = <<filtername, filterlevel>>,
                               !.pre = [lg |-> lg, fs |-> fs, faulted |-> faulted]]
  /\ calls' = calls + 1
  /\ UNCHANGED <<variant, fs, exited, faulted>>

\* The call has returned and the caller goes on: its record is dropped.
Return ==
  /\ last.op # "none"
  /\ last' = Idle
  /\ UNCHANGED <<variant, lg, fs, exited, faulted, calls>>

Next ==
  \/ LogCall
  \/ LogFatalCall
  \/ ApplyNewSettingsCall
  \/ AddFacilityFilterCall
  \/ Return

Spec == Init /\ [][Next]_vars

\* ------------------------------------------------------------- construction
\* New called in a directory that holds the log file already, or not: the
\* behaviours of SpecNew are one call of New each, with any arguments.
InitNew ==
  /\ variant \in {"root", "part"}
  /\ lg = ZeroLogger
  /\ \E present \in SUBSET {Live("a"), Gen("a", 1)} :
       fs = [n \in Names |-> IF n \in present
                             THEN [id |-> IF n = Live("a") THEN 1 ELSE 2,
                                   size |-> LineLen]
                             ELSE NoFile]
  /\ exited = FALSE
  /\ faulted = FALSE
  /\ calls = 0
  /\ last = Idle

NewCall ==
  /\ calls = 0
  /\ last.op = "none"
  /\ \E filename \in Paths, minloglevel \in NewLevels, rotate \in BOOLEAN,
        rotatesize \in SizeStrings, keep \in Keeps, fault \in ApplyFaults :
     \E r \in {NewResult([fs |-> fs, used |-> IdsIn(fs), ev |-> <<>>,
                          exited |-> FALSE, fault |-> fault],
                         filename, minloglevel, rotate, rotatesize, keep)} :
       /\ lg' = r.l
       /\ fs' = r.w.fs
       /\ exited' = r.w.exited
       /\ faulted' = Failed(r.w.ev)
       /\ calls' = 1
       /\ last' = [Idle EXCEPT !.op = "New", !.fault = fault, !.ret = r.err,
                               !.ev = r.w.ev,
                               !.args = <<filename, minloglevel, rotate,
                                          rotatesize, keep>>,
                               !.pre = [lg |-> lg, fs |-> fs,
                                        faulted |-> faulted]]
  /\ UNCHANGED variant

NextNew == NewCall

SpecNew == InitNew /\ [][NextNew]_vars

\* ------------------------------------------------------------- a call, step by step
\* One Log<Level> call (TRACE .. ERROR) taken apart into the steps of the
\* methods it is in: last.stack holds a frame for each method entered and not
\* yet returned from, the caller's Log method at the bottom.  A frame: the
\* method (fn: "Log" for LogTrace .. LogError, or "logRotate"), the place in
\* it (pc), the arguments of a Log method, the Logger l the method works on,
\* and what the logRotate it called returned (err, nbase).
Frame(fn, pc, level, function, source, tag, l) ==
  [fn |-> fn, pc |-> pc, level |-> level, function |-> function,
   source |-> source, tag |-> tag, l |-> l, err |-> FALSE, nbase |-> 0]

Top == last.stack[Len(last.stack)]

\* The state a step works on: the file system as it is, what the call did so
\* far, and the fault of the call.
Work ==
  [fs |-> fs,
   used |-> IdsIn(fs) \cup {lg.filehandle, lg.base}
              \cup {last.stack[i].l.base : i \in DOMAIN last.stack},
   ev |-> last.ev, exited |-> FALSE, fault |-> last.fault]

\* (a slip: the guard of logRotate without the rotation_running flag)
RotationDueUnguarded(l) == l.rotate

\* The guard of logRotate: rotation enabled and no rotation running.
RotationDue(l) == l.rotate /\ ~l.rotation_running

\* The stack after the top frame returned, leaving Logger l and, from
\* logRotate, the error err.  logRotate works on the Logger of the method
\* that called it (pointer receiver) and hands back its error and, in
\* part_000, its writer; a Log method of part_000 works on the Logger of its
\* caller as well, one of servicelogger.go on a copy that is dropped.
ReturnedTo(l, err) ==
  IF Len(last.stack) = 1 THEN <<>>
  ELSE Then(Len(last.stack) - 1, LAMBDA n :
         IF Top.fn = "logRotate"
         THEN [SubSeq(last.stack, 1, n) EXCEPT ![n].l = l, ![n].err = err,
                                               ![n].nbase = l.base]
         ELSE IF variant = "part"
         THEN [SubSeq(last.stack, 1, n) EXCEPT ![n].l = l]
         ELSE SubSeq(last.stack, 1, n))

\* The Logger the caller holds after the top frame returned.
CallerLogger(l) ==
  IF Len(last.stack) = 1 /\ variant = "part" THEN l ELSE lg

\* What a step leaves behind: the file system, the stack, the caller's
\* Logger.  os.Exit ends the process with every frame of it.
Step(w, stack, l) ==
  /\ fs' = w.fs
  /\ exited' = w.exited
  /\ faulted' = (faulted \/ Failed(w.ev))
  /\ lg' = l
  /\ last' = [last EXCEPT !.ev = w.ev,
                          !.stack = IF w.exited THEN <<>> ELSE stack]
  /\ UNCHANGED <<variant, calls>>

\* The top frame returns.
Leave(w, l, err) == Step(w, ReturnedTo(l, err), CallerLogger(l))

\* The top frame, moved to pc with Logger l, calls the method of frame f.
Enter(w, pc, l, f) ==
  /\ Len(last.stack) < MaxDepth
  /\ Step(w, Append([last.stack EXCEPT ![Len(last.stack)].pc = pc,
                                       ![Len(last.stack)].l = l], f), lg)

\* The levels and the call site of the call taken apart (no filter is set,
\* so one call site stands for all).
StepLevels == {LL_TRACE, LL_INFO, LL_ERROR}
StepSites == {s \in CallSites : s.source = <<"d">>}

\* The caller calls LogTrace, LogInfo or LogError: one call in a run.
LogStart ==
  /\ CanCall
  /\ calls = 0
  /\ \E level \in StepLevels, site \in StepSites, fault \in Faults :
       last' = [Idle EXCEPT
                  !.op = "Log", !.level = level, !.function = site.function,
                  !.source = site.source, !.fault = fault,
                  !.pre = [lg |-> lg, fs |-> fs, faulted |-> faulted],
                  !.stack = <<Frame("Log", "gate", level, site.function,
                                    site.source, "caller", lg)>>]
  /\ calls' = calls + 1
  /\ UNCHANGED <<variant, lg, fs, exited, faulted>>

\* A Log method at its gate: below the threshold it returns, otherwise it
\* calls logRotate.
LogGate ==
  /\ last.stack # <<>>
  /\ Top.fn = "Log" /\ Top.pc = "gate"
  /\ IF Passes(getFilteredLogLevel(Top.l, Facility(Top.source, Top.function)),
               Top.level)
     THEN Enter(Work, "rotated", Top.l,
                Frame("logRotate", "guard", 0, <<>>, <<>>, "", Top.l))
     ELSE Leave(Work, Top.l, FALSE)

\* logRotate from its guard to the size check: it returns (nothing to do, an
\* error from the stat, or the file below the size), or sets out to rotate
\* and calls LogTrace.
RotateGuard ==
  /\ last.stack # <<>>
  /\ Top.fn = "logRotate" /\ Top.pc = "guard"
  /\ IF RotationDue(Top.l)
     THEN \E l1 \in {[Top.l EXCEPT !.rotation_running = TRUE]} :
          \E st \in {Stat(Work, Live(l1.filename), TRUE)} :
            IF st.err THEN Leave(st.w, l1, TRUE)
            ELSE IF SizeReached(st.size, l1.rotatesize)
            THEN Enter(st.w, "shift", l1,
                       Frame("Log", "gate", LL_TRACE, <<"logRotate">>,
                             ServiceLogger, "rot_begin", l1))
            ELSE Leave(st.w, [l1 EXCEPT !.rotation_running = FALSE], FALSE)
     ELSE Leave(Work, Top.l, FALSE)

\* logRotate from the removal of generation keep to the reopening: it
\* returns the error of a rename, ends the process when the file cannot be
\* opened, or takes the new file and calls LogTrace.
RotateShift ==
  /\ last.stack # <<>>
  /\ Top.fn = "logRotate" /\ Top.pc = "shift"
  /\ \E sh \in {ShiftFiles(Work, Top.l)} :
       IF sh.err THEN Leave(sh.w, Top.l, TRUE)
       ELSE \E op \in {OpenFile(sh.w, Top.l.filename)} :
              IF op.err THEN Step(Exit(op.w, 1), <<>>, lg)
              ELSE \E l2 \in {[Top.l EXCEPT !.filehandle = op.id,
                                            !.base = op.id]} :
                     Enter(op.w, "end", l2,
                           Frame("Log", "gate", LL_TRACE, <<"logRotate">>,
                                 ServiceLogger, "rot_end", l2))

\* logRotate after its last trace line: part_000 clears the flag and
\* returns, servicelogger.go returns with the flag set.
RotateEnd ==
  /\ last.stack # <<>>
  /\ Top.fn = "logRotate" /\ Top.pc = "end"
  /\ IF variant = "part"
     THEN Leave(Work, [Top.l EXCEPT !.rotation_running = FALSE], FALSE)
     ELSE Leave(Work, Top.l, FALSE)

\* The Logger a Log method writes with: part_000 takes the writer that
\* logRotate returned.
Writer(f) ==
  IF variant = "part" THEN [f.l EXCEPT !.base = f.nbase] ELSE f.l

\* A Log method after its logRotate returned: part_000 calls LogError on an
\* error; otherwise the line is written and the method returns.
LogRotated ==
  /\ last.stack # <<>>
  /\ Top.fn = "Log" /\ Top.pc = "rotated"
  /\ IF variant = "part" /\ Top.err
     THEN Enter(Work, "write", Top.l,
                Frame("Log", "gate", LL_ERROR, LogFn(Top.level), ServiceLogger,
                      "rot_err", Top.l))
     ELSE \E l \in {Writer(Top)} :
            Leave(Write(Work, l.base, Top.level, Top.tag), l, FALSE)

\* A Log method of part_000 after its LogError returned: the line is
\* written and the method returns.
LogWrite ==
  /\ last.stack # <<>>
  /\ Top.fn = "Log" /\ Top.pc = "write"
  /\ \E l \in {Writer(Top)} :
       Leave(Write(Work, l.base, Top.level, Top.tag), l, FALSE)

\* The caller goes on after the call has returned.
Returned ==
  /\ last.stack = <<>>
  /\ Return

\* The steps of the methods the call is in.
Running ==
  \/ LogGate
  \/ RotateGuard
  \/ RotateShift
  \/ RotateEnd
  \/ LogRotated
  \/ LogWrite

\* The Logger and the files a call may find: any threshold, with or without
\* a filter that lets every line of the facilities under "s" through,
\* rotation on or off with any keep, the flag of part_000 left set by an
\* earlier call or not, the live file empty or of two lines, generations 1
\* and 2 there or not.
InitSteps ==
  /\ variant \in {"root", "part"}
  /\ \E minloglevel \in NewLevels, rotate \in BOOLEAN, rotatesize \in NewSizes,
        keep \in Keeps, running \in BOOLEAN, lines \in {0, 2},
        present \in SUBSET {1, 2}, filtered \in BOOLEAN :
       /\ running => variant = "part" /\ rotate
       /\ filtered => minloglevel # LL_TRACE
       /\ \E l \in {[New("a", minloglevel, rotate, rotatesize, keep)
                       EXCEPT !.rotation_running = running]} :
            lg = IF filtered THEN AddFacilityFilter(l, <<"s">>, LL_TRACE)
                 ELSE l
       /\ fs = [n \in Names |->
                  IF n = Live("a") THEN [id |-> 1, size |-> lines * LineLen]
                  ELSE IF n[1] = "a" /\ n[2] \in present
                  THEN [id |-> n[2] + 1, size |-> LineLen]
                  ELSE NoFile]
  /\ exited = FALSE
  /\ faulted = FALSE
  /\ calls = 0
  /\ last = Idle

NextSteps ==
  \/ LogStart
  \/ Running
  \/ Returned

\* A method that was entered goes on: the call runs in the goroutine of its
\* caller, which takes its steps as long as the process lives.
SpecSteps == InitSteps /\ [][NextSteps]_vars /\ WF_vars(Running)

\* ------------------------------------------------------------- reading a call
\* The claims below are about the call recorded in `last`: the state it
\* started from (last.pre), its arguments and what it did (last.ev).
PreLive == Live(last.pre.lg.filename)

\* The threshold the call's facility resolved to when the call started.
PreThreshold ==
  getFilteredLogLevel(last.pre.lg, Facility(last.source, last.function))

\* The call was one the gate lets through.
Emitted == PreThreshold <= last.level

\* The lines of the caller written by the call.
CallerWrites == {i \in DOMAIN last.ev :
                   last.ev[i].k = "write" /\ last.ev[i].tag = "caller"}

\* The rotations completed by the call: the live file renamed and a live
\* file opened right after.
Rotations ==
  {i \in DOMAIN last.ev :
     /\ i > 1
     /\ last.ev[i].k = "open" /\ last.ev[i].tag # "failed"
     /\ last.ev[i - 1].k = "rename" /\ last.ev[i - 1].tag = "ok"
     /\ last.ev[i - 1].n[2] = -1}

\* Rotation was enabled and the live file had reached the threshold when the
\* call started.
PreSizeReached ==
  /\ last.pre.lg.rotate
  /\ Exists(last.pre.fs, PreLive)
  /\ (last.pre.fs[PreLive].size \div 1024) >= last.pre.lg.rotatesize

\* ------------------------------------------------------------- C1
C1_Case ==
  /\ last.op \in {"Log", "LogFatal"}
  /\ ~last.pre.faulted
  /\ last.fault = "none"
  /\ Emitted
  /\ PreSizeReached

\* C1: with no file-system failure so far, an emitted Log call that starts
\* with rotation enabled and the live file at or above rotatesize completes a
\* rotation before it appends its line: the line is written exactly once,
\* after the rotation, to the file the rotation created under <path>, which
\* is not the file that had reached the threshold.
C1_RotationBeforeAppend ==
  C1_Case =>
    /\ Cardinality(CallerWrites) = 1
    /\ \A j \in CallerWrites :
         \E i \in Rotations :
           /\ i < j
           /\ last.ev[i].tag = "created"
           /\ last.ev[i].n = PreLive
           /\ last.ev[j].f = last.ev[i].f
           /\ last.ev[j].n = PreLive
           /\ last.ev[j].f # last.pre.fs[PreLive].id

\* A call of C1's case whose live file had grown to a threshold of 1K.
C1_Witness ==
  /\ C1_Case
  /\ last.op = "Log"
  /\ last.pre.lg.rotatesize = 1
  /\ last.pre.fs[PreLive].size >= 1024
  /\ Rotations # {}

\* ------------------------------------------------------------- C2
\* A Log call that completed a rotation (a Log call rotates at most once, so
\* the file system before and after the call is that before and after the
\* rotation, but for the lines written).
C2_Case ==
  /\ last.op \in {"Log", "LogFatal"}
  /\ Rotations # {}

\* The generational shift of path p with keep = k, from file system pre to
\* file system post, as the events of the call show it.
GenerationalShift(pre, post, p, k) ==
  \* generation k, if it existed, is deleted before any rename
  /\ Exists(pre, Gen(p, k)) =>
       \E i \in DOMAIN last.ev :
         /\ last.ev[i].k = "remove" /\ last.ev[i].n = Gen(p, k)
         /\ \A j \in DOMAIN last.ev : last.ev[j].k = "rename" => i < j
  \* generation i is at generation i+1
  /\ \A i \in 1 .. (k - 1) :
       Exists(pre, Gen(p, i)) => post[Gen(p, i + 1)].id = pre[Gen(p, i)].id
  \* the live file is at generation 1
  /\ post[Gen(p, 1)].id = pre[Live(p)].id
  \* <path> is a newly opened file
  /\ Exists(post, Live(p))
  /\ post[Live(p)].id \notin IdsIn(pre)
  \* nothing but the old generation k is lost or overwritten
  /\ \A n \in Names :
       (Exists(pre, n) /\ n # Gen(p, k)) =>
         \E m \in Names : /\ post[m].id = pre[n].id
                          /\ post[m].size >= pre[n].size

\* C2: a completed rotation with keep = k performs the generational shift:
\* generation k deleted before any rename, generation i moved to i+1 for
\* i = k-1 .. 1, the live file moved to generation 1, a new live file opened,
\* and no content other than that of the old generation k lost.
C2_GenerationalShift ==
  C2_Case =>
    GenerationalShift(last.pre.fs, fs, last.pre.lg.filename, last.pre.lg.keep)

\* The same for the keep counts New accepts together with rotation and for
\* keep = 1: it holds, the shift goes wrong only with keep < 1.
C2_GenerationalShiftKeepPositive ==
  (C2_Case /\ last.pre.lg.keep >= 1) =>
    GenerationalShift(last.pre.fs, fs, last.pre.lg.filename, last.pre.lg.keep)

\* A rotation that deleted generation keep and shifted the others.
C2_Witness ==
  /\ C2_Case
  /\ last.pre.lg.keep >= 2
  /\ \A i \in 1 .. last.pre.lg.keep :
       Exists(last.pre.fs, Gen(last.pre.lg.filename, i))

\* ------------------------------------------------------------- C3
\* The numbered generations of path p in file system f.
Generations(f, p) == {n \in 0 .. MaxGen : Exists(f, Gen(p, n))}

\* C3: the logger being created in a directory without numbered generations,
\* whenever a Log call has completed a rotation the numbered generations of
\* <path> all have 1 <= n <= keep, keep being the current keep.
C3_GenerationCount ==
  C2_Case => \A n \in Generations(fs, lg.filename) : 1 <= n /\ n <= lg.keep

\* The same with a keep of at least 2 (what New accepts with rotation): it
\* fails as well, a generation above a lowered keep is never removed.
C3_GenerationCountKeepTwo ==
  (C2_Case /\ lg.keep >= 2) =>
     \A n \in Generations(fs, lg.filename) : 1 <= n /\ n <= lg.keep


\* ------------------------------------------------------------- C4
\* The facility names of the caller's call sites.
Facilities == {Facility(site.source, site.function) : site \in CallSites}

\* The filters of l whose string is a prefix of the facility name.
Matching(l, facility) ==
  {n \in 1 .. Len(l.filters.filters) :
     HasPrefix(facility, l.filters.filters[n].filter)}

\* The level a longest matching filter gives, MinLoglevel when none matches.
LongestPrefixLevel(l, facility, level) ==
  IF Matching(l, facility) = {} THEN level = l.MinLoglevel
  ELSE \E n \in Matching(l, facility) :
         /\ \A k \in Matching(l, facility) :
              Len(l.filters.filters[k].filter) <= Len(l.filters.filters[n].filter)
         /\ level = l.filters.filters[n].level

\* C4: for every filter set and every facility name, getFilteredLogLevel
\* returns the level of the filter with the longest string among those that
\* are a prefix of the facility name, and MinLoglevel when none is.
C4_LongestPrefix ==
  \A facility \in Facilities :
     LongestPrefixLevel(lg, facility, getFilteredLogLevel(lg, facility))

\* The same for src/unnamed/part_000 alone: there it holds.
C4_LongestPrefixPart ==
  \A facility \in Facilities :
     LongestPrefixLevel(lg, facility, getFilteredLogLevelPart(lg, facility))

\* Two filters, one a prefix of the other, both matching s.d.q, with levels
\* that differ from each other and from MinLoglevel.
C4_Witness ==
  /\ Len(lg.filters.filters) = 2
  /\ \E n, k \in Matching(lg, Facility(<<"d">>, <<"q">>)) :
       /\ Len(lg.filters.filters[n].filter) < Len(lg.filters.filters[k].filter)
       /\ lg.filters.filters[n].level # lg.filters.filters[k].level
       /\ lg.filters.filters[k].level # lg.MinLoglevel

\* ------------------------------------------------------------- C5
\* The reopening of the live file failed in the call.
ReopenFailed ==
  \E i \in DOMAIN last.ev : last.ev[i].k = "open" /\ last.ev[i].tag = "failed"

\* The process exited in the call.
Exits == {i \in DOMAIN last.ev : last.ev[i].k = "exit"}

\* C5 as stated: a Log<L> call, L in TRACE .. ERROR, appends its line if and
\* only if the threshold resolved for its facility is <= L, and with a
\* threshold > L it writes nothing and makes no rotation check.
C5_AppendsIffThreshold ==
  last.op = "Log" =>
    /\ Emitted <=> CallerWrites # {}
    /\ ~Emitted => last.ev = <<>> /\ fs = last.pre.fs

\* C5: the same, but for an emitted call whose rotation fails to reopen the
\* live file: that call ends the process and its line is not written.
C5_AppendsIffThresholdUnlessReopenFails ==
  last.op = "Log" =>
    /\ (Emitted /\ ~ReopenFailed) => Cardinality(CallerWrites) = 1 /\ ~exited
    /\ (Emitted /\ ReopenFailed) => CallerWrites = {} /\ exited
    /\ ~Emitted => /\ last.ev = <<>>
                   /\ fs = last.pre.fs
                   /\ lg = last.pre.lg
                   /\ ~exited

\* A call suppressed by a facility filter although MinLoglevel would let it
\* through, made when the live file had reached the threshold.
C5_Witness ==
  /\ last.op = "Log"
  /\ ~Emitted
  /\ last.pre.lg.MinLoglevel <= last.level
  /\ PreSizeReached
  /\ last.ev = <<>>

\* ------------------------------------------------------------- C6
\* The call wrote its line to the file, echoed it, and exited with the code
\* handed in, in that order and with nothing after the exit.
WroteEchoedExited ==
  /\ exited
  /\ \E i, j, e \in DOMAIN last.ev :
       /\ i < j /\ j < e /\ e = Len(last.ev)
       /\ last.ev[i].k = "write" /\ last.ev[i].tag = "caller"
       /\ last.ev[i].lvl = LL_FATAL /\ last.ev[i].f # 0
       /\ last.ev[j].k = "echo" /\ last.ev[j].tag = "caller"
       /\ last.ev[e].k = "exit" /\ last.ev[e].lvl = last.args[1]
       /\ Exits = {e}

\* C6 as stated: a LogFatal call always writes its line, echoes it and exits
\* with the supplied code, whatever MinLoglevel and the filters are.
C6_FatalAlwaysWritesAndExits ==
  last.op = "LogFatal" => WroteEchoedExited

\* C6: the same, but for a call whose rotation fails to reopen the live file:
\* that call exits with code 1 and writes no line.
C6_FatalWritesAndExitsUnlessReopenFails ==
  last.op = "LogFatal" =>
    /\ ~ReopenFailed => WroteEchoedExited
    /\ ReopenFailed =>
         /\ exited
         /\ CallerWrites = {}
         /\ \A e \in Exits : last.ev[e].lvl = 1

\* A LogFatal call whose facility a filter puts at FATAL, under a MinLoglevel
\* below FATAL.
C6_Witness ==
  /\ last.op = "LogFatal"
  /\ WroteEchoedExited
  /\ PreThreshold = LL_FATAL
  /\ last.pre.lg.MinLoglevel < LL_FATAL

\* ------------------------------------------------------------- C7
\* The stat of the live file or a rename failed in the call.
StatOrRenameFailed ==
  \E i \in DOMAIN last.ev :
     /\ last.ev[i].tag = "failed"
     /\ \/ last.ev[i].k = "stat" /\ last.ev[i].n[2] = -1
        \/ last.ev[i].k = "rename"

\* C7: when the stat of the live file or a rename fails in the rotation check
\* of an emitted Log<Level> call, the call writes its line exactly once and
\* the process goes on; a Log<Level> call ends the process only when the
\* reopening of the live file fails.
C7_RotationErrorsDegrade ==
  (last.op = "Log" /\ Emitted) =>
    /\ StatOrRenameFailed => Cardinality(CallerWrites) = 1 /\ ~exited
    /\ exited => ReopenFailed

\* An emitted Log call whose rename of a generation failed.
C7_Witness ==
  /\ last.op = "Log"
  /\ Emitted
  /\ \E i \in DOMAIN last.ev :
       /\ last.ev[i].k = "rename" /\ last.ev[i].tag = "failed"
       /\ last.ev[i].n[2] >= 1
  /\ CallerWrites # {}

\* ------------------------------------------------------------- C8
\* The size string of the ApplyNewSettings call, parsed.
ParsedSize ==
  IF last.op = "ApplyNewSettings"
  THEN logSizeStringToLogSizeInt64(last.args[4])
  ELSE [err |-> TRUE, val |-> 0]

\* The requested settings that differ from the configuration the call
\* started with.
Differing ==
  {f \in {"filename", "MinLoglevel", "rotate", "rotatesize", "keep"} :
     \/ f = "filename" /\ last.args[1] # last.pre.lg.filename
     \/ f = "MinLoglevel" /\ last.args[2] # last.pre.lg.MinLoglevel
     \/ f = "rotate" /\ last.args[3] # last.pre.lg.rotate
     \/ f = "rotatesize" /\ ParsedSize.val # last.pre.lg.rotatesize
     \/ f = "keep" /\ last.args[5] # last.pre.lg.keep}

\* An ApplyNewSettings call with a well-formed size string.
ApplyCase == last.op = "ApplyNewSettings" /\ ~ParsedSize.err

\* C8: ApplyNewSettings called with a path, level, rotation flag, parsed size
\* and keep all equal to the current configuration returns false, changes no
\* Logger field, touches no file and writes no line.
C8_IdenticalSettingsNoOp ==
  (ApplyCase /\ Differing = {}) =>
    /\ last.ret = FALSE
    /\ lg = last.pre.lg
    /\ fs = last.pre.fs
    /\ last.ev = <<>>
    /\ ~exited

\* Such a call, its size string spelled otherwise than the current size was
\* ("01K" for 1024 bytes), made when the live file had reached that size.
C8_Witness ==
  /\ ApplyCase
  /\ Differing = {}
  /\ last.args[4] = <<"0", "1", "K">>
  /\ PreSizeReached
  /\ last.ret = FALSE

\* ------------------------------------------------------------- C9
\* C9: ApplyNewSettings with a well-formed size string, when it returns,
\* returns true if and only if one of path, level, rotation flag, parsed size
\* and keep differs from the current configuration, and leaves filename,
\* MinLoglevel, rotate, rotatesize and keep equal to the requested values.
C9_ReturnsChangedAndApplies ==
  (ApplyCase /\ ~exited) =>
    /\ last.ret <=> Differing # {}
    /\ lg.filename = last.args[1]
    /\ lg.MinLoglevel = last.args[2]
    /\ lg.rotate = last.args[3]
    /\ lg.rotatesize = ParsedSize.val
    /\ lg.keep = last.args[5]

\* A call that changed all five settings and returned true.
C9_Witness ==
  /\ ApplyCase
  /\ ~exited
  /\ Cardinality(Differing) = 5
  /\ last.ret = TRUE

\* ------------------------------------------------------------- C10
\* An ApplyNewSettings call with a path other than the current one.
C10_Case == ApplyCase /\ last.args[1] # last.pre.lg.filename

\* The assignment of filename in the call (0: the call did not get there).
Switched ==
  IF \E i \in DOMAIN last.ev : last.ev[i].k = "set" /\ last.ev[i].tag = "filename"
  THEN CHOOSE i \in DOMAIN last.ev :
         last.ev[i].k = "set" /\ last.ev[i].tag = "filename"
  ELSE 0

\* Event i renames, deletes or creates a file under path p.
TouchesPath(i, p) ==
  \/ last.ev[i].k = "rename" /\ last.ev[i].tag = "ok"
       /\ (last.ev[i].n[1] = p \/ last.ev[i].m[1] = p)
  \/ last.ev[i].k = "remove" /\ last.ev[i].n[1] = p
  \/ last.ev[i].k = "open" /\ last.ev[i].tag = "created" /\ last.ev[i].n[1] = p

\* C10 as stated: in a call with a new path no file under the old path is
\* renamed, deleted or created.
C10_OldPathUntouched ==
  C10_Case =>
    \A i \in DOMAIN last.ev : ~TouchesPath(i, last.pre.lg.filename)

\* C10: in a call with a new path, from the closing of the handle on no file
\* under the old path is renamed, deleted or created: the handle is closed,
\* filename assigned and the new path opened, and what is logged afterwards
\* rotates under the new path.  (The lines logged before the handle is
\* closed go to the old path and rotate it as any line does.)
C10_OldPathUntouchedAfterSwitch ==
  (C10_Case /\ Switched # 0) =>
    /\ last.ev[Switched - 1].k = "close"
    /\ Len(last.ev) > Switched
    /\ last.ev[Switched + 1].k = "open"
    /\ last.ev[Switched + 1].n = Live(last.args[1])
    /\ \A i \in DOMAIN last.ev :
         i >= Switched - 1 => ~TouchesPath(i, last.pre.lg.filename)

\* A call with a new path that, after the switch, rotated under the new path
\* while a generation of the old path existed.
C10_Witness ==
  /\ C10_Case
  /\ Switched # 0
  /\ Exists(last.pre.fs, Gen(last.pre.lg.filename, 1))
  /\ \E i \in DOMAIN last.ev :
       /\ i > Switched
       /\ last.ev[i].k = "rename" /\ last.ev[i].tag = "ok"
       /\ last.ev[i].n = Live(last.args[1])

\* ------------------------------------------------------------- C11
\* The size string is malformed: no modifier K, M, G or T at its end, or
\* something else than decimal digits before it.
MalformedSize(s) ==
  \/ Len(s) = 0
  \/ s[Len(s)] \notin {"K", "M", "G", "T"}
  \/ Len(s) = 1
  \/ \E i \in 1 .. (Len(s) - 1) : s[i] \notin Digits

\* An ApplyNewSettings call with a malformed size string.
C11_Case == last.op = "ApplyNewSettings" /\ MalformedSize(last.args[4])

\* The five settings are those the call started with.
SettingsKept ==
  /\ lg.filename = last.pre.lg.filename
  /\ lg.MinLoglevel = last.pre.lg.MinLoglevel
  /\ lg.rotate = last.pre.lg.rotate
  /\ lg.rotatesize = last.pre.lg.rotatesize
  /\ lg.keep = last.pre.lg.keep

\* The call wrote the FATAL line about the settings to the file, echoed it
\* and exited with code 222, in that order and with nothing after the exit.
LoggedFatalAndExited222 ==
  /\ exited
  /\ \E i, j, e \in DOMAIN last.ev :
       /\ i < j /\ j < e /\ e = Len(last.ev)
       /\ last.ev[i].k = "write" /\ last.ev[i].tag = "cfg_fatal"
       /\ last.ev[i].lvl = LL_FATAL /\ last.ev[i].f # 0
       /\ last.ev[j].k = "echo" /\ last.ev[j].tag = "cfg_fatal"
       /\ last.ev[e].k = "exit" /\ last.ev[e].lvl = 222
       /\ Exits = {e}

\* C11 as stated: ApplyNewSettings with a malformed size string logs a FATAL
\* line and exits with code 222 without having changed a setting.
C11_MalformedSizeFatal ==
  C11_Case => LoggedFatalAndExited222 /\ SettingsKept

\* C11: the same, but for a call whose FATAL line triggers a rotation that
\* fails to reopen the live file: that call exits with code 1 and writes no
\* FATAL line.  No setting is changed either way.
C11_MalformedSizeFatalUnlessReopenFails ==
  C11_Case =>
    /\ exited
    /\ SettingsKept
    /\ \A i \in DOMAIN last.ev : last.ev[i].k # "set"
    /\ ~ReopenFailed => LoggedFatalAndExited222
    /\ ReopenFailed =>
         /\ \A i \in DOMAIN last.ev : last.ev[i].tag # "cfg_fatal"
         /\ \A e \in Exits : last.ev[e].lvl = 1

\* A call with a bad modifier ("1X") whose other four values all differ from
\* the current ones, under a MinLoglevel of INFO.
C11_Witness ==
  /\ C11_Case
  /\ last.args[4] = <<"1", "X">>
  /\ last.args[1] # last.pre.lg.filename
  /\ last.args[2] # last.pre.lg.MinLoglevel
  /\ last.args[3] # last.pre.lg.rotate
  /\ last.args[5] # last.pre.lg.keep
  /\ last.pre.lg.MinLoglevel = LL_INFO
  /\ LoggedFatalAndExited222

\* ------------------------------------------------------------- C12
\* C12: New called with rotate = true and keep < 2 returns an error, does
\* not end the process and opens or creates no file, whatever the other
\* arguments are; with rotate = false every keep is accepted (New returns
\* the Logger with that keep, unless the size is malformed or the file
\* cannot be opened).
C12_KeepTooLowRejected ==
  last.op = "New" =>
    /\ (last.args[3] /\ last.args[5] < 2) =>
         /\ last.ret = TRUE
         /\ ~exited
         /\ last.ev = <<>>
         /\ fs = last.pre.fs
         /\ lg.filehandle = 0
    /\ (~last.args[3] /\ ~MalformedSize(last.args[4]) /\ last.fault = "none") =>
         /\ last.ret = FALSE
         /\ ~exited
         /\ lg.keep = last.args[5]
         /\ Exists(fs, Live(lg.filename))
         /\ fs[Live(lg.filename)].id = lg.filehandle

\* New refusing rotate with keep = 1 although the size string is malformed
\* and the file could not have been opened.
C12_Witness ==
  /\ last.op = "New"
  /\ last.args[3]
  /\ last.args[5] = 1
  /\ MalformedSize(last.args[4])
  /\ last.fault = "open"
  /\ last.ret = TRUE
  /\ ~exited

\* ------------------------------------------------------------- C13
\* The longest of the filters matching the facility, and the first added
\* among them.
Longest(l, facility) ==
  {n \in Matching(l, facility) :
     \A k \in Matching(l, facility) :
        Len(l.filters.filters[k].filter) <= Len(l.filters.filters[n].filter)}

EarliestLongest(l, facility) ==
  CHOOSE n \in Longest(l, facility) : \A k \in Longest(l, facility) : n <= k

\* Two matching filters of equal (and greatest) length carry different levels.
Tied(l, facility) ==
  \E n, k \in Longest(l, facility) :
     l.filters.filters[n].level # l.filters.filters[k].level

\* C13: when two matching filters have equal prefix length and different
\* levels, getFilteredLogLevel returns the level of the one added earlier.
C13_EarlierWins ==
  \A facility \in Facilities :
     Tied(lg, facility) =>
       getFilteredLogLevel(lg, facility)
         = lg.filters.filters[EarliestLongest(lg, facility)].level

\* The same for src/unnamed/part_000 alone, where filters do match: it fails
\* there as well, the later filter wins (>=).
C13_EarlierWinsPart ==
  \A facility \in Facilities :
     Tied(lg, facility) =>
       getFilteredLogLevelPart(lg, facility)
         = lg.filters.filters[EarliestLongest(lg, facility)].level

\* ------------------------------------------------------------- C14
\* C14: AddFacilityFilter(P, L) leaves the level of every facility name that
\* does not start with P as it was, for every filter set there was (and it
\* touches no file and no other field of the Logger).
C14_OtherFacilitiesUnchanged ==
  last.op = "AddFacilityFilter" =>
    /\ \A facility \in Facilities :
         ~HasPrefix(facility, last.args[1]) =>
           getFilteredLogLevel(lg, facility)
             = getFilteredLogLevel(last.pre.lg, facility)
    /\ fs = last.pre.fs
    /\ [lg EXCEPT !.filters = last.pre.lg.filters] = last.pre.lg

\* A filter on s.d added to a filter on s that sets a level other than
\* MinLoglevel: s.h.q keeps the level of the filter on s, s.d.q changes.
C14_Witness ==
  /\ last.op = "AddFacilityFilter"
  /\ last.args[1] = <<"s", ".", "d">>
  /\ Len(last.pre.lg.filters.filters) = 1
  /\ last.pre.lg.filters.filters[1].filter = <<"s">>
  /\ getFilteredLogLevel(lg, Facility(<<"h">>, <<"q">>)) # lg.MinLoglevel
  /\ getFilteredLogLevel(lg, Facility(<<"d">>, <<"q">>))
       # getFilteredLogLevel(last.pre.lg, Facility(<<"d">>, <<"q">>))

\* ------------------------------------------------------------- C15
\* The writer of the Logger the caller holds is bound to the file now named
\* <path>.
WriterOnLive ==
  /\ Exists(fs, Live(lg.filename))
  /\ lg.base = fs[Live(lg.filename)].id

\* C15: in every state reached by Log calls, rotations and ApplyNewSettings
\* calls, the writer the next Log call will use is bound to the file named
\* <path>, and the line a Log call writes goes to the file named <path>,
\* never to a generation or to the old path.
C15_WriterBoundToLive ==
  /\ ~exited => WriterOnLive
  /\ last.op \in {"Log", "LogFatal"} =>
       \A i \in CallerWrites : last.ev[i].n = PreLive

\* The same for src/unnamed/part_000 alone (pointer receivers): it holds.
C15_WriterBoundToLivePart ==
  variant = "part" =>
    /\ ~exited => WriterOnLive
    /\ last.op \in {"Log", "LogFatal"} =>
         \A i \in CallerWrites : last.ev[i].n = PreLive

\* ------------------------------------------------------------- C16
\* C16: whenever a Log<Level> or ApplyNewSettings call has returned, the
\* rotation-in-progress flag of the caller's Logger is false, whichever way
\* logRotate was left.
C16_FlagClearAfterCall ==
  (last.op \in {"Log", "ApplyNewSettings"} /\ ~exited) =>
     ~lg.rotation_running

\* The same without file-system failures: it holds, the flag stays set only
\* after a failed stat or rename.
C16_FlagClearWithoutFailure ==
  (last.op \in {"Log", "ApplyNewSettings"} /\ ~exited /\ ~faulted) =>
     ~lg.rotation_running

\* ------------------------------------------------------------- C17
\* The failed rename of a generation in the call (0: there was none).
FailedShift ==
  IF \E i \in DOMAIN last.ev :
       last.ev[i].k = "rename" /\ last.ev[i].tag = "failed" /\ last.ev[i].n[2] >= 1
  THEN CHOOSE i \in DOMAIN last.ev :
         last.ev[i].k = "rename" /\ last.ev[i].tag = "failed" /\ last.ev[i].n[2] >= 1
  ELSE 0

\* A Log call in whose rotation the rename of a generation failed.
C17_Case == last.op \in {"Log", "LogFatal"} /\ FailedShift # 0

\* C17: when the rename of generation i to i+1 fails during a rotation, the
\* rotation stops at once: nothing is renamed, removed or opened after it,
\* generation i, the generations below it and the live file keep their
\* names, the line is written through the handle the call started with, and
\* the generations shifted before stay shifted.
C17_FailedRenameAborts ==
  C17_Case =>
    LET p == last.pre.lg.filename
        i == last.ev[FailedShift].n[2]
    IN /\ \A j \in DOMAIN last.ev :
            j > FailedShift => last.ev[j].k \notin {"rename", "remove", "open", "stat"}
       /\ \A g \in 1 .. i : fs[Gen(p, g)].id = last.pre.fs[Gen(p, g)].id
       /\ fs[Live(p)].id = last.pre.fs[Live(p)].id
       /\ IdsIn(fs) \subseteq IdsIn(last.pre.fs)
       /\ \A j \in CallerWrites : last.ev[j].f = last.pre.lg.base
       /\ Cardinality(CallerWrites) = 1
       /\ \A g \in (i + 1) .. (last.pre.lg.keep - 1) :
            Exists(last.pre.fs, Gen(p, g)) =>
              fs[Gen(p, g + 1)].id = last.pre.fs[Gen(p, g)].id

\* The rename of generation 1 failing after generation 2 was shifted to 3.
C17_Witness ==
  /\ C17_Case
  /\ last.ev[FailedShift].n[2] = 1
  /\ Exists(last.pre.fs, Gen(last.pre.lg.filename, 2))
  /\ fs[Gen(last.pre.lg.filename, 3)].id = last.pre.fs[Gen(last.pre.lg.filename, 2)].id
  /\ CallerWrites # {}

\* ------------------------------------------------------------- C18
\* The size checks of the call (stats of the live file) and the renames of
\* the live file it made or tried.
SizeChecks ==
  {i \in DOMAIN last.ev : last.ev[i].k = "stat" /\ last.ev[i].n[2] = -1}

LiveRenames ==
  {i \in DOMAIN last.ev : last.ev[i].k = "rename" /\ last.ev[i].n[2] = -1}

\* C18: one Log<Level> call makes at most one size check and at most one
\* rotation: the TRACE lines logRotate writes while rotating and the ERROR
\* line written after a rotation error start no rotation of their own,
\* whatever the threshold is.
C18_AtMostOneRotation ==
  last.op \in {"Log", "LogFatal"} =>
    /\ Cardinality(Rotations) <= 1
    /\ Cardinality(LiveRenames) <= 1
    /\ Cardinality(SizeChecks) <= 1

\* A call that rotated with a threshold of 0 bytes and wrote both TRACE
\* lines of the rotation, the second into the new file.
C18_Witness ==
  /\ last.op = "Log"
  /\ last.pre.lg.rotatesize = 0
  /\ Cardinality(Rotations) = 1
  /\ \E i, j \in DOMAIN last.ev :
       /\ last.ev[i].k = "write" /\ last.ev[i].tag = "rot_begin"
       /\ last.ev[j].k = "write" /\ last.ev[j].tag = "rot_end"
       /\ \A r \in Rotations : i < r /\ r < j /\ last.ev[j].f = last.ev[r].f

\* ------------------------------------------------------------- C19
\* logRotate run on the caller's Logger between two calls, and run again on
\* what the first run left.
RotateOnce == logRotate(Begin("none"), lg)

RotateTwice ==
  Then(RotateOnce, LAMBDA r : logRotate([r.w EXCEPT !.ev = <<>>], r.l))

\* C19: the rotation check is idempotent: a second run of logRotate, no line
\* of the caller written in between, renames, deletes and opens nothing and
\* leaves the file system and the Logger as the first run left them,
\* whatever the threshold, keep and level are.
C19_RotateIdempotent ==
  (last.op = "none" /\ ~exited) =>
    \E r \in {RotateOnce} : \E t \in {RotateTwice} :
       /\ t.w.fs = r.w.fs
       /\ t.l = r.l
       /\ \A i \in DOMAIN t.w.ev :
            t.w.ev[i].k \notin {"rename", "remove", "open"}

\* The same for thresholds of at least 1K (more than the lines the first
\* run writes into the new file): it holds.
C19_RotateIdempotentAboveLine ==
  (last.op = "none" /\ ~exited /\ lg.rotatesize >= 1) =>
    \E r \in {RotateOnce} : \E t \in {RotateTwice} :
       /\ t.w.fs = r.w.fs
       /\ t.l = r.l
       /\ \A i \in DOMAIN t.w.ev :
            t.w.ev[i].k \notin {"rename", "remove", "open"}

\* ------------------------------------------------------------- C20
\* The facility ApplyNewSettings logs under, and the lines that describe the
\* change of a field.
ApplyFacility == Facility(ServiceLogger, <<"ApplyNewSettings">>)

ChangeTags(f) ==
  CASE f = "filename" -> {"cfg_file"}
    [] f = "MinLoglevel" -> {"cfg_level"}
    [] f = "rotate" -> {"cfg_rot_on", "cfg_rot_off"}
    [] f = "rotatesize" -> {"cfg_size"}
    [] OTHER -> {"cfg_keep"}

\* The assignments of the call, and the lines written about field f.
Sets == {i \in DOMAIN last.ev : last.ev[i].k = "set"}

ChangeLines(f) ==
  {j \in DOMAIN last.ev :
     last.ev[j].k = "write" /\ last.ev[j].tag \in ChangeTags(f)}

\* The threshold in force for ApplyNewSettings' own lines when field f is
\* about to be assigned: MinLoglevel is the second field assigned.
ThresholdAt(f) ==
  IF f \in {"filename", "MinLoglevel"}
  THEN getFilteredLogLevel(last.pre.lg, ApplyFacility)
  ELSE getFilteredLogLevel([last.pre.lg EXCEPT !.MinLoglevel = last.args[2]],
                           ApplyFacility)

\* C20 as stated: for each field whose value changes a TRACE line about the
\* change is written before the field takes its new value.
C20_TraceBeforeCommit ==
  (ApplyCase /\ ~exited) =>
    \A f \in Differing :
       \E i \in Sets : \E j \in ChangeLines(f) :
          /\ last.ev[i].tag = f
          /\ j < i
          /\ last.ev[j].lvl = LL_TRACE

\* C20: each field whose value changes is assigned once, fields that do not
\* change are not assigned, and LogTrace is called about the change before
\* the assignment: when the threshold in force for ApplyNewSettings at that
\* moment is TRACE the line is in the log before the field is assigned (and
\* after the assignment before it), otherwise no line about the change is
\* written.
C20_TraceBeforeCommitIfTraceEnabled ==
  ApplyCase =>
    /\ ~exited => {last.ev[i].tag : i \in Sets} = Differing
    /\ \A i, k \in Sets : last.ev[i].tag = last.ev[k].tag => i = k
    /\ \A i \in Sets :
         /\ last.ev[i].tag \in Differing
         /\ ThresholdAt(last.ev[i].tag) <= LL_TRACE =>
              \E j \in ChangeLines(last.ev[i].tag) :
                 /\ j < i
                 /\ last.ev[j].lvl = LL_TRACE
                 /\ \A k \in Sets : k < i => k < j
                 /\ ChangeLines(last.ev[i].tag) = {j}
         /\ ThresholdAt(last.ev[i].tag) > LL_TRACE =>
              ChangeLines(last.ev[i].tag) = {}

\* A call that changes all five fields from a MinLoglevel of TRACE to one of
\* FATAL: the changes of path and level are logged, the other three are not.
C20_Witness ==
  /\ ApplyCase
  /\ ~exited
  /\ Cardinality(Differing) = 5
  /\ Cardinality(Sets) = 5
  /\ last.pre.lg.MinLoglevel = LL_TRACE
  /\ last.args[2] = LL_FATAL
  /\ ChangeLines("filename") # {}
  /\ ChangeLines("MinLoglevel") # {}
  /\ ChangeLines("keep") = {}

\* ------------------------------------------------------------- C21
\* C21: in every state reached from a successful New by ApplyNewSettings
\* and Log calls, rotation enabled implies keep >= 2.
C21_RotateImpliesKeepTwo ==
  ~exited => (lg.rotate => lg.keep >= 2)
\* ------------------------------------------------------------- C22
\* The call in progress is one of LogTrace .. LogError.
InLog == last.op = "Log" /\ last.stack # <<>>

\* The call has come to its end: no method of it is left to return, and the
\* process lives unless the reopening of the live file failed.
LogDone == last.stack = <<>> /\ (exited => ReopenFailed)

\* The "Log rotation error" lines written in the call.
RotationErrorLines ==
  {i \in DOMAIN last.ev : last.ev[i].k = "write" /\ last.ev[i].tag = "rot_err"}

\* C22: every Log<Level> call other than LogFatal terminates and returns to
\* its caller: the Log methods and logRotate calling each other never go
\* deeper than four frames, whatever the configuration and whichever
\* file-system operation fails, and the process ends in the call only when
\* the reopening of the live file failed.
C22_LogReturns ==
  /\ [](Len(last.stack) <= 4)
  /\ [](last.op = "Log" /\ exited => ReopenFailed)
  /\ (InLog ~> LogDone)

\* Reached: a LogTrace .. LogError call of part_000 whose logRotate failed
\* at the stat has called LogError, which wrote its line, then has written
\* its own line and returned.
C22_Witness ==
  /\ variant = "part"
  /\ last.op = "Log" /\ last.stack = <<>> /\ ~exited
  /\ last.fault = "stat"
  /\ \E i \in RotationErrorLines : \E j \in CallerWrites : i < j

=============================================================================
